---- MODULE Spec2Model ----
(***************************************************************************)
(* The "Cyber Defender" minigame of src/src/components/CyberGame.tsx as a  *)
(* state machine.                                                          *)
(*                                                                         *)
(* Units.  Lengths are in cells: the player, every enemy and every         *)
(* power-up are one cell wide and high, a player projectile is PROJ_W by   *)
(* PROJ_H cells.  Time is in ticks; every duration of the source (ms) is   *)
(* scaled to a small number of ticks.                                      *)
(* Math.random() and the sine terms of the movement code are choices over  *)
(* the cells they can produce.                                             *)
(*                                                                         *)
(* React.  `state` is the result of every queued setState applied in       *)
(* order; `stateRef` holds the fields the handlers read from               *)
(* stateRef.current, as the effect of lines 202-204 last copied them       *)
(* (action Commit).  updateGame changes the powerupEffects object in       *)
(* place, so stateRef sees it live for as long as it still holds the same  *)
(* object (refSharesEffects).  A keyboard or touch handler that finds      *)
(* nothing pending is rendered, and its effects run, before anything else  *)
(* happens; a frame or a timer leaves its render pending.                  *)
(* Timestamps (lastShot, lastEnemySpawn, ...) are kept as ages             *)
(* performance.now() - stamp; an age stops growing once it is above every  *)
(* interval the code compares it with, and a stamp of 0 is such an age.    *)
(***************************************************************************)
EXTENDS Integers, Sequences, FiniteSets, TLC

\* ---------------------------------------------------------------- bounds
\* Playfield, in cells (CANVAS_WIDTH 800, CANVAS_HEIGHT 600 in the source).
CanvasW == 1
CanvasH == 3
\* Pool capacities (50, 30, 200 and 10 slots in the source).
ProjectileCap == 2
EnemyCap == 2
ParticleCap == 1
PowerUpCap == 1
\* Durations in ticks (source: 150, 2000, 3000 ms; 6000..10000 ms; 1000 ms).
ShotCooldown == 2
InvulnTime == 3
ComboTime == 3
EffectTime == 2
ParticleLife == 1
\* Enemy spawn interval in ticks: base and floor (source: 2500 ms less 200 ms a
\* level, at least 1500 ms); power-up interval (8000 ms); boss attack cooldown.
SpawnBase == 2
SpawnFloor == 1
PowerupInterval == 4
BossCooldown == 2
\* The longest gap between two frames, in ticks.
MaxElapsed == 1
\* Score per level (200), boss level (BOSS_SPAWN_LEVEL 5), boss health (30),
\* combo step (5): scaled so that a bounded run reaches the boss fight.
LevelStep == 10
BossLevel == 2
BossHealth == 3
ComboStep == 2
\* A run is followed for MaxTime ticks from its first frame, the long run
\* for LongTime ticks.
MaxTime == 12
LongTime == 15
\* A high score left in local storage by an earlier visit.
StoredScore == 40
\* The largest score and stored number when the high score functions are
\* taken on their own.
MaxSaved == 8

\* A time hidden, in ticks, after which every stamp of the game is old.
MaxHidden == 5
\* The run in a view that is hidden and shown is followed for ViewTime ticks.
ViewTime == 8
\* The positions of the player that are told apart when steering is followed
\* on its own.
FieldW == 5
\* When the driver is followed on its own, time is counted in units of which
\* Fine make one tick; two animation callbacks are at most MaxGap units
\* apart, and the driver is followed for DriverTime units.
Fine == 2
MaxGap == 3
DriverTime == 30

\* ------------------------------------------------------ program constants
MAX_DELTA == 1            \* the clamp of a frame's deltaTime (33.33 ms), one tick
START_LIVES == 3
MAX_LIVES == 5
MAX_MULTIPLIER == 5
POINTS_NORMAL == 10
POINTS_FAST == 20
POINTS_TANK == 30
POINTS_BOSS == 1000
PROJ_W == 1               \* player projectile: narrower than high (4 x 10 px)
PROJ_H == 2
HOMING == -999

Min(a, b) == IF a < b THEN a ELSE b
Max(a, b) == IF a > b THEN a ELSE b

EnemyTypes == {"normal", "fast", "tank"}
PowerUpTypes == {"multishot", "shield", "slowtime", "rapid", "health"}
MoveKeys == {"ArrowLeft", "ArrowRight"}

\* ------------------------------------------------------------------ pools
\* A slot as createProjectilePool makes it.  A slot that is deactivated goes
\* back to this record: the code leaves the old field values in place and
\* never reads them before the next activation overwrites them.
FreeProjectile == [active |-> FALSE, x |-> 0, y |-> 0, width |-> PROJ_W,
                   height |-> PROJ_H, damage |-> 1]
\* The ages from which a stamp is old enough for every test made on it.
ShotAge == ShotCooldown
SpawnAge == SpawnBase
PowerupAge == PowerupInterval + 1
AttackAge == BossCooldown + 1

FreeEnemy == [active |-> FALSE, x |-> 0, y |-> 0, health |-> 1, maxHealth |-> 1,
              type |-> "normal", movementTimer |-> 0, phase |-> 1,
              lastAttack |-> AttackAge, attackCooldown |-> BossCooldown]
FreeParticle == [active |-> FALSE, life |-> 0]
FreePowerUp == [active |-> FALSE, x |-> 0, y |-> 0, type |-> "multishot"]

createProjectilePool == [i \in 1..ProjectileCap |-> FreeProjectile]
createEnemyPool == [i \in 1..EnemyCap |-> FreeEnemy]
createParticlePool == [i \in 1..ParticleCap |-> FreeParticle]
createPowerUpPool == [i \in 1..PowerUpCap |-> FreePowerUp]

ActiveCount(pool) == Cardinality({i \in 1..Len(pool) : pool[i].active})

\* pool.find(p => !p.active): the index of the first inactive slot, 0 if none.
FirstInactive(pool) ==
  IF \E i \in 1..Len(pool) : ~pool[i].active
  THEN CHOOSE i \in 1..Len(pool) :
         ~pool[i].active /\ \A j \in 1..(i - 1) : pool[j].active
  ELSE 0

\* A grown pool: what a push of a fresh slot on saturation would do.
AcquireGrow(pool, init) ==
  IF FirstInactive(pool) = 0 THEN Append(pool, init)
  ELSE [pool EXCEPT ![FirstInactive(pool)] = init]

\* The find-then-initialise idiom of every spawn site: the first inactive
\* slot takes `init` (an active record); a saturated pool is left as it is.
Acquire(pool, init) ==
  IF FirstInactive(pool) = 0 THEN pool
  ELSE [pool EXCEPT ![FirstInactive(pool)] = init]

\* One Acquire per element of `inits`, in order (the for loops of shoot and
\* createBossAttack, the particle bursts).
RECURSIVE AcquireAll(_, _)
AcquireAll(pool, inits) ==
  IF inits = <<>> THEN pool
  ELSE AcquireAll(Acquire(pool, Head(inits)), Tail(inits))

\* checkCollision: axis-aligned rectangle overlap.
checkCollision(ax, ay, aw, ah, bx, by, bw, bh) ==
  ax < bx + bw /\ ax + aw > bx /\ ay < by + bh /\ ay + ah > by

\* ------------------------------------------------------------ persistence
\* localStorage as getHighScore and saveHighScore see it: whether access to
\* it throws (storage disabled), whether the key has an item, and the item
\* as parseInt reads it: whether it starts with decimal digits, the number
\* they denote, and whether other characters follow them (junk).
\* What a call gives when it gives no number: NaN, and an exception.
NaN == -1
Thrown == -2
NoEntry == [present |-> FALSE, digits |-> FALSE, value |-> 0, junk |-> FALSE,
            throws |-> FALSE]
\* score.toString() stored under the key.
Entry(n) == [present |-> TRUE, digits |-> TRUE, value |-> n, junk |-> FALSE,
             throws |-> FALSE]
\* parseInt(text): the leading digits, NaN when there are none.
parseInt(item) == IF item.digits THEN item.value ELSE NaN
\* getHighScore (lines 141-143): parseInt(getItem(key) || '0').  A missing
\* item and the empty string give '0'; an exception of getItem is not caught.
getHighScore(store) ==
  IF store.throws THEN Thrown
  ELSE IF ~store.present \/ (~store.digits /\ ~store.junk) THEN 0
  ELSE parseInt(store)
\* saveHighScore (lines 145-147): setItem(key, score.toString()), whatever
\* is stored; nothing is stored when setItem throws.
saveHighScore(store, score) == IF store.throws THEN store ELSE Entry(score)

\* ------------------------------------------------------------- game state
PlayerY == CanvasH - 1
InitialPlayer == [x |-> CanvasW \div 2, lives |-> START_LIVES, invulnerable |-> 0]
NoEffects == [multishot |-> 0, shield |-> 0, slowtime |-> 0, rapid |-> 0]
\* The object of useState (lines 164-194) and of resetGame (lines 555-585).
InitialState ==
  [player |-> InitialPlayer, score |-> 0, level |-> 1,
   gameStarted |-> FALSE, gameOver |-> FALSE, gameWon |-> FALSE,
   lastShot |-> ShotAge, lastEnemySpawn |-> SpawnAge,
   lastPowerupSpawn |-> PowerupAge,
   keys |-> {}, combo |-> 0, comboTimer |-> 0, multiplier |-> 1,
   bossActive |-> FALSE, powerupEffects |-> NoEffects]

\* What shoot, handleKeyDown and checkAndFire read from stateRef.current.
RefOf(s) ==
  [gameStarted |-> s.gameStarted, gameOver |-> s.gameOver, gameWon |-> s.gameWon,
   lastShot |-> s.lastShot, playerX |-> s.player.x,
   powerupEffects |-> s.powerupEffects]

Phase(s) ==
  IF s.gameOver THEN "GameOver"
  ELSE IF s.gameWon THEN "Won"
  ELSE IF s.gameStarted THEN "Running"
  ELSE "NotStarted"

VARIABLES
  state,            \* the React state of the component
  stateRef,         \* stateRef.current, the fields that handlers read
  refSharesEffects, \* stateRef.current.powerupEffects is state.powerupEffects
  projectilePool, enemyPool, particlePool, powerupPool,
  storage,          \* the localStorage entry of the high score
  highScoreRef,     \* highScoreRef.current
  moveTimer,        \* the movePlayer interval of lines 985-1020 is installed
  lastTime,         \* lastTimeRef.current, in ticks since the first frame
  run,              \* this run: what Math.random() selects, and its length
  isVisible,        \* the isVisible prop of the component
  listening,        \* handleKeyDown and handleKeyUp are attached to window
  animationRef,     \* animationRef.current is the id of a pending request
  frames,           \* the requests for updateGameLoop that are pending
  spaceHeld,        \* the Space key is down
  mobileControls,   \* the on-screen direction buttons that are held
  last              \* history: the handler that ran last, and what it did

vars == <<state, stateRef, refSharesEffects, projectilePool,
          enemyPool, particlePool, powerupPool, storage, highScoreRef,
          moveTimer, lastTime, run, isVisible, listening, animationRef,
          frames, spaceHeld, mobileControls, last>>

\* What lies outside the game: the view and the keyboard.
env == <<isVisible, listening, animationRef, frames, spaceHeld, mobileControls>>

\* mobileControls as useState makes it (lines 951-956); its shoot field is
\* never written.
NoTouch == [moveLeft |-> FALSE, moveRight |-> FALSE]

\* What the last handler did, if it was a frame: its deltaTime, and how often
\* it took a life, set gameOver, wrote the high score, killed an enemy and
\* called render; how many of the kills were made by a projectile of the
\* player's (own), how often a projectile of the boss's took health from an
\* enemy (foul), and how often a projectile took health from an enemy after
\* its hit on another one had deactivated it (extra).
NoEvent ==
  [dt |-> 0, hits |-> 0, overs |-> 0, writes |-> 0, kills |-> 0, draws |-> 0,
   own |-> 0, foul |-> 0, extra |-> 0]

\* The component right after it is mounted: fresh pools and state, and the
\* high score read from storage (lines 158-161, 164-199).
Constructed ==
  /\ state = InitialState
  /\ stateRef = RefOf(InitialState)
  /\ refSharesEffects = TRUE
  /\ projectilePool = createProjectilePool
  /\ enemyPool = createEnemyPool
  /\ particlePool = createParticlePool
  /\ powerupPool = createPowerUpPool
  /\ moveTimer = FALSE
  /\ mobileControls = NoTouch
  /\ lastTime = 0
Mounted(store) ==
  /\ Constructed
  /\ storage = store
  /\ highScoreRef = getHighScore(store)

\* The effect of lines 2096-2149 after a render: with isVisible it attaches
\* the two key listeners and requests the first frame, without it it returns
\* at line 2097.  requestAnimationFrame adds a request to those that are
\* pending, cancelAnimationFrame with the id of a pending request takes it
\* away.
requestAnimationFrame(pending) == pending + 1
cancelNothing(pending) == pending
cancelAnimationFrame(pending) == pending - 1
Shown ==
  /\ isVisible = TRUE /\ listening = TRUE
  /\ animationRef = TRUE /\ frames = requestAnimationFrame(0)
Hidden ==
  /\ isVisible = FALSE /\ listening = FALSE
  /\ animationRef = FALSE /\ frames = 0

\* The runs that are followed: the enemy types and the power-up types that
\* the draws of one run select, and the tick `until` which it is followed.
\* Runs of one enemy type with each power-up, a run that mixes the fast and
\* the slow type, and one longer run that reaches the end of the boss fight.
\* `width` is the number of positions of the player that the run tells
\* apart.
MixedRun == [types |-> {"fast", "tank"}, powers |-> {"multishot"},
             until |-> MaxTime, width |-> CanvasW]
LongRun == [types |-> {"fast"}, powers |-> {"multishot"}, until |-> LongTime,
            width |-> CanvasW]
Runs == [types : {{"normal"}}, powers : {{u} : u \in PowerUpTypes},
         until : {MaxTime}, width : {CanvasW}] \cup {MixedRun, LongRun}

Init ==
  /\ \E store \in {NoEntry, Entry(StoredScore)} : Mounted(store)
  /\ run \in Runs
  /\ Shown /\ spaceHeld = FALSE
  /\ last = NoEvent

\* ------------------------------------------------------- simulation step
\* The step works on one record g: the draft newState (s), the four pools,
\* storage, highScoreRef.current, and ev, a count of what the step did.
Sgn(n) == IF n > 0 THEN 1 ELSE IF n < 0 THEN -1 ELSE 0
Dec(t, dt) == IF t > 0 THEN t - dt ELSE t

\* Lines 598-617: power-up effects, invulnerability and the combo timer count
\* down by deltaTime; the combo is dropped when its timer runs out.
DecayTimers(s, dt) ==
  LET eff == s.powerupEffects
      ct == Dec(s.comboTimer, dt)
  IN [s EXCEPT
        !.powerupEffects = [multishot |-> Dec(eff.multishot, dt),
                            shield |-> Dec(eff.shield, dt),
                            slowtime |-> Dec(eff.slowtime, dt),
                            rapid |-> Dec(eff.rapid, dt)],
        !.player.invulnerable = Dec(s.player.invulnerable, dt),
        !.comboTimer = ct,
        !.combo = IF s.comboTimer > 0 /\ ct <= 0 THEN 0 ELSE s.combo]

\* Lines 629 and 814: a projectile counts as an enemy's when its size is not
\* the player projectile's.
IsEnemyProjectile(p) ==
  p.damage = 1 /\ (p.width # PROJ_W \/ p.height # PROJ_H)

\* Lines 625-658, one projectile.  Rows above FarAbove are not told apart:
\* nothing is compared with a row up there.
FarAbove == 0 - (CanvasH + 1)
MoveProjectile(p, player, dt) ==
  IF ~p.active THEN p
  ELSE IF IsEnemyProjectile(p) THEN
    LET q == IF p.width = HOMING
             THEN LET dx == player.x - p.x
                      dy == PlayerY - p.y
                  IN IF dx # 0 \/ dy # 0
                     THEN [p EXCEPT !.x = p.x + Sgn(dx),
                                    !.y = p.y + (IF dy = 0 THEN 1 ELSE Sgn(dy))]
                     ELSE p
             ELSE [p EXCEPT !.x = p.x + p.width * dt,
                            !.y = Max(FarAbove, p.y + p.height * dt)]
    IN IF q.y > CanvasH + 1 \/ q.x < -1 \/ q.x > CanvasW + 1
       THEN FreeProjectile ELSE q
  ELSE
    LET q == [p EXCEPT !.y = p.y - dt]
    IN IF q.y < 0 THEN FreeProjectile ELSE q

MoveProjectiles(g, dt) ==
  [g EXCEPT !.proj = [i \in 1..Len(g.proj) |->
                        MoveProjectile(g.proj[i], g.s.player, dt)]]

\* The test of lines 669, 780 and 810: hits count only while the
\* invulnerability countdown is not running.
VulnerableAlways(s) == TRUE
Vulnerable(s) == s.player.invulnerable <= 0

\* The test of lines 675, 794 and 832: a final score is written only when it
\* is above highScoreRef.current; no score is above NaN.
BeatsAlways(score, hs) == TRUE
BeatsHighScore(score, hs) == hs # NaN /\ score > hs

\* Lines 669-681, 787-799 and 825-836: the player loses a life; at zero lives
\* the game is over and a beaten high score is written to storage.
LoseLife(g) ==
  LET lives == g.s.player.lives - 1
      over == lives <= 0
      beat == over /\ BeatsHighScore(g.s.score, g.hs)
  IN [g EXCEPT
        !.s.player.lives = lives,
        !.s.player.invulnerable = InvulnTime,
        !.s.gameOver = IF over THEN TRUE ELSE g.s.gameOver,
        !.store = IF beat THEN saveHighScore(g.store, g.s.score) ELSE g.store,
        !.hs = IF beat THEN g.s.score ELSE g.hs,
        !.ev.hits = g.ev.hits + 1,
        !.ev.overs = g.ev.overs + (IF over THEN 1 ELSE 0),
        !.ev.writes = g.ev.writes + (IF beat THEN 1 ELSE 0)]

\* createParticle, n times (lines 413-433): a particle of the given life in
\* each of the first n inactive slots.  Calls beyond the size of the pool
\* find it saturated.
Burst(pool, n, life) ==
  AcquireAll(pool, [k \in 1..Min(n, Len(pool)) |-> [active |-> TRUE, life |-> life]])

\* createBossAttack (lines 207-322): the projectiles of one attack, by phase
\* and attackType.  width and height carry the velocity.
Shot(x, y, vx, vy) ==
  [active |-> TRUE, x |-> x, y |-> y, width |-> vx, height |-> vy, damage |-> 1]
BossAttack(boss, player, attackType) ==
  LET bx == boss.x
      below == boss.y + 1
  IN IF boss.phase = 1 THEN
       \* spray: a spread around straight down
       <<Shot(bx, below, -1, 1), Shot(bx, below, 0, 1), Shot(bx, below, 1, 1)>>
     ELSE IF boss.phase = 2 THEN
       IF attackType = 0
       THEN \* homing missiles
            [k \in 1..3 |-> Shot(bx + k - 2, below, HOMING, 2)]
       ELSE \* laser sweep: one projectile per column
            [k \in 1..CanvasW |-> Shot(k - 1, below, 0, 1)]
     ELSE IF attackType = 0
       THEN \* spiral: every direction, straight up included
            <<Shot(bx, below, 1, 0), Shot(bx, below, 0, 1),
              Shot(bx, below, -1, 0), Shot(bx, below, 0, -1)>>
       ELSE IF attackType = 1
       THEN \* rain, from the boss's own row
            [k \in 1..CanvasW |-> Shot(k - 1, boss.y, 1, 1)]
       ELSE \* burst aimed at the player
            LET vx == Sgn(player.x - bx)
                vy == Sgn(PlayerY - below)
            IN <<Shot(bx, below, vx, vy), Shot(bx + 1, below, vx, vy)>>
createBossAttack(g, boss, attackType) ==
  [g EXCEPT !.proj = AcquireAll(g.proj, BossAttack(boss, g.s.player, attackType))]

\* The boss's phase from its health (line 345).
BossPhase(e) == ((3 * (e.maxHealth - e.health)) \div e.maxHealth) + 1

\* updateEnemyMovement (lines 325-410), one enemy.  in.bossX is the boss's
\* column this frame, in.attackType the pattern drawn by createBossAttack.  A
\* regular enemy comes down one row a frame, a tank (vy 0.6, half the speed
\* of the others) one row every second frame of its movementTimer.  The
\* sideways drift of a regular enemy stays within its column.
ClampX(x) == Max(0, Min(CanvasW - 1, x))
MoveEnemy(g, i, in) ==
  LET e == g.en[i]
  IN IF e.type = "boss" THEN
       LET b == [e EXCEPT !.x = in.bossX, !.y = Max(0, Min(e.y, 0))]
       IN IF b.lastAttack > b.attackCooldown
          THEN LET h == createBossAttack(g, b, in.attackType)
                   ph == BossPhase(b)
               IN [h EXCEPT !.en[i] =
                     [b EXCEPT !.lastAttack = 0, !.phase = ph,
                               !.attackCooldown = Max(1, BossCooldown + 1 - ph)]]
          ELSE [g EXCEPT !.en[i] = b]
     ELSE [g EXCEPT !.en[i] =
             IF e.type = "tank"
             THEN [e EXCEPT !.x = ClampX(e.x),
                            !.movementTimer = 1 - e.movementTimer,
                            !.y = e.y + (1 - e.movementTimer)]
             ELSE [e EXCEPT !.x = ClampX(e.x), !.y = e.y + 1]]

\* Lines 661-683: every active enemy moves; one that has passed the bottom
\* edge is deactivated and costs a life unless the player is invulnerable.
RECURSIVE UpdateEnemies(_, _, _)
UpdateEnemies(g, i, in) ==
  IF i > Len(g.en) THEN g
  ELSE IF ~g.en[i].active THEN UpdateEnemies(g, i + 1, in)
  ELSE LET m == MoveEnemy(g, i, in)
       IN IF m.en[i].y > CanvasH
          THEN LET d == [m EXCEPT !.en[i] = FreeEnemy]
               IN UpdateEnemies(IF Vulnerable(d.s) THEN LoseLife(d) ELSE d,
                                i + 1, in)
          ELSE UpdateEnemies(m, i + 1, in)

\* Lines 686-700: power-ups fall and leave at the bottom; particles age.
UpdatePowerUps(g, dt) ==
  [g EXCEPT !.pow = [i \in 1..Len(g.pow) |->
     IF ~g.pow[i].active THEN g.pow[i]
     ELSE IF g.pow[i].y + dt > CanvasH THEN FreePowerUp
     ELSE [g.pow[i] EXCEPT !.y = g.pow[i].y + dt]]]
UpdateParticles(g, dt) ==
  [g EXCEPT !.part = [i \in 1..Len(g.part) |->
     IF ~g.part[i].active THEN g.part[i]
     ELSE IF g.part[i].life - dt <= 0 THEN FreeParticle
     ELSE [g.part[i] EXCEPT !.life = g.part[i].life - dt]]]

\* Lines 722-724.
PointsLost(type) == 0 - POINTS_NORMAL
Points(type) ==
  IF type = "boss" THEN POINTS_BOSS
  ELSE IF type = "tank" THEN POINTS_TANK
  ELSE IF type = "fast" THEN POINTS_FAST
  ELSE POINTS_NORMAL

\* Line 730.
MultiplierFlat(combo) == 1
Multiplier(combo) == Min(MAX_MULTIPLIER, (combo \div ComboStep) + 1)

\* Lines 718-774: enemy j has no health left.
KillEnemy(g, j) ==
  LET e == g.en[j]
      combo == g.s.combo + 1
      mult == IF combo > ComboStep THEN Multiplier(combo) ELSE g.s.multiplier
      points == IF combo > ComboStep THEN Points(e.type) * mult ELSE Points(e.type)
      boss == e.type = "boss"
      p1 == Burst(g.part, IF combo > ComboStep THEN 1 ELSE 0, ParticleLife)
      p2 == Burst(p1, IF boss THEN 40 ELSE 16, ParticleLife)
      p3 == Burst(p2, IF boss THEN 1 ELSE 0, ParticleLife)
  IN [g EXCEPT
        !.en[j] = FreeEnemy,
        !.part = p3,
        !.s.combo = combo,
        !.s.comboTimer = ComboTime,
        !.s.multiplier = mult,
        !.s.score = g.s.score + points,
        !.s.bossActive = IF boss THEN FALSE ELSE g.s.bossActive,
        !.s.gameWon = IF boss THEN TRUE ELSE g.s.gameWon,
        !.ev.kills = g.ev.kills + 1]

\* Lines 706-776: projectile p (as it was when its turn came) against the
\* enemies from j on.  A hit deactivates slot i; the loop goes on.
RECURSIVE HitEnemies(_, _, _, _)
HitEnemies(g, i, p, j) ==
  IF j > Len(g.en) THEN g
  ELSE LET e == g.en[j]
       IN IF e.active /\ checkCollision(p.x, p.y, p.width, p.height, e.x, e.y, 1, 1)
          THEN LET mine == IF IsEnemyProjectile(p) THEN 0 ELSE 1
                   h == [g EXCEPT !.proj[i] = FreeProjectile,
                                  !.en[j].health = e.health - p.damage,
                                  !.part = Burst(g.part, 5, ParticleLife),
                                  !.ev.foul = g.ev.foul + 1 - mine,
                                  !.ev.extra = g.ev.extra +
                                                 (IF g.proj[i].active THEN 0 ELSE 1)]
                   k == [KillEnemy(h, j) EXCEPT !.ev.own = h.ev.own + mine]
               IN HitEnemies(IF h.en[j].health <= 0 THEN k ELSE h, i, p, j + 1)
          ELSE HitEnemies(g, i, p, j + 1)

\* Lines 703-777.
RECURSIVE ProjectilesVsEnemies(_, _)
ProjectilesVsEnemies(g, i) ==
  IF i > Len(g.proj) THEN g
  ELSE IF ~g.proj[i].active THEN ProjectilesVsEnemies(g, i + 1)
  ELSE ProjectilesVsEnemies(HitEnemies(g, i, g.proj[i], 1), i + 1)

\* Lines 781-806, from enemy j on: the caller has tested invulnerable once.
RECURSIVE PlayerVsEnemies(_, _)
PlayerVsEnemies(g, j) ==
  IF j > Len(g.en) THEN g
  ELSE LET e == g.en[j]
       IN IF e.active /\ checkCollision(g.s.player.x, PlayerY, 1, 1, e.x, e.y, 1, 1)
          THEN LET d == [g EXCEPT !.en[j] = FreeEnemy]
                   h == IF d.s.powerupEffects.shield <= 0 THEN LoseLife(d) ELSE d
               IN PlayerVsEnemies([h EXCEPT !.part = Burst(h.part, 10, ParticleLife)],
                                  j + 1)
          ELSE PlayerVsEnemies(g, j + 1)

\* Lines 811-848, from projectile i on: the caller has tested invulnerable once.
RECURSIVE PlayerVsProjectiles(_, _)
PlayerVsProjectiles(g, i) ==
  IF i > Len(g.proj) THEN g
  ELSE LET p == g.proj[i]
       IN IF p.active /\ IsEnemyProjectile(p)
             /\ p.x < g.s.player.x + 1 /\ p.x + 1 > g.s.player.x
             /\ p.y < PlayerY + 1 /\ p.y + 1 > PlayerY
          THEN LET d == [g EXCEPT !.proj[i] = FreeProjectile]
                   h == IF d.s.powerupEffects.shield <= 0
                        THEN LoseLife(d)
                        ELSE [d EXCEPT !.part = Burst(d.part, 1, ParticleLife)]
               IN PlayerVsProjectiles([h EXCEPT !.part = Burst(h.part, 6, ParticleLife)],
                                      i + 1)
          ELSE PlayerVsProjectiles(g, i + 1)

\* Lines 852-881: the player collects every power-up it overlaps.
ApplyPowerUp(s, type) ==
  IF type = "health"
  THEN [s EXCEPT !.player.lives = Min(MAX_LIVES, s.player.lives + 1)]
  ELSE [s EXCEPT !.powerupEffects[type] = EffectTime]
RECURSIVE PlayerVsPowerUps(_, _)
PlayerVsPowerUps(g, i) ==
  IF i > Len(g.pow) THEN g
  ELSE LET u == g.pow[i]
       IN IF u.active /\ checkCollision(g.s.player.x, PlayerY, 1, 1, u.x, u.y, 1, 1)
          THEN PlayerVsPowerUps(
                 [g EXCEPT !.pow[i] = FreePowerUp,
                           !.s = ApplyPowerUp(g.s, u.type),
                           !.part = Burst(g.part, 1, ParticleLife)], i + 1)
          ELSE PlayerVsPowerUps(g, i + 1)

\* spawnEnemy (lines 436-479): a regular enemy of a drawn type at a drawn
\* column, one cell above the playfield.
NewEnemy(type, x) ==
  [active |-> TRUE, x |-> x, y |-> -1,
   health |-> IF type = "tank" THEN 2 ELSE 1,
   maxHealth |-> IF type = "tank" THEN 2 ELSE 1,
   type |-> type, movementTimer |-> 0, phase |-> 1,
   lastAttack |-> AttackAge, attackCooldown |-> BossCooldown]
spawnEnemy(g, type, x) == [g EXCEPT !.en = Acquire(g.en, NewEnemy(type, x))]

\* spawnBoss (lines 482-505).
NewBoss ==
  [active |-> TRUE, x |-> CanvasW \div 2, y |-> 0, health |-> BossHealth,
   maxHealth |-> BossHealth, type |-> "boss", movementTimer |-> 0, phase |-> 1,
   lastAttack |-> AttackAge, attackCooldown |-> BossCooldown]
spawnBoss(g) ==
  IF FirstInactive(g.en) = 0 THEN g
  ELSE [g EXCEPT !.en = Acquire(g.en, NewBoss),
                 !.part = Burst(g.part, 1, ParticleLife)]

\* spawnPowerUp (lines 508-519).
spawnPowerUp(g, type, x) ==
  [g EXCEPT !.pow = Acquire(g.pow, [active |-> TRUE, x |-> x, y |-> -1,
                                    type |-> type])]

\* Line 884: the spawn interval shrinks with the level, down to a floor.
SpawnRate(level) == Max(SpawnFloor, SpawnBase - level)

\* Lines 887-888: the boss is due from BOSS_SPAWN_LEVEL on, when none is
\* active and the enemy pool has no active enemy.
BossDueAtAnyLevel(g) == ~g.s.bossActive /\ ActiveCount(g.en) = 0
BossDue(g) ==
  g.s.level >= BossLevel /\ ~g.s.bossActive /\ ActiveCount(g.en) = 0

\* Lines 885-898.
SpawnEnemies(g, in) ==
  IF g.s.lastEnemySpawn > SpawnRate(g.s.level)
  THEN IF BossDue(g)
       THEN [spawnBoss(g) EXCEPT !.s.bossActive = TRUE, !.s.lastEnemySpawn = 0]
       ELSE IF ~g.s.bossActive
       THEN [spawnEnemy(g, in.spawnType, in.spawnX) EXCEPT !.s.lastEnemySpawn = 0]
       ELSE g
  ELSE g

\* Lines 901-904.
SpawnPowerUps(g, in) ==
  IF g.s.lastPowerupSpawn > PowerupInterval
  THEN [spawnPowerUp(g, in.powType, in.powX) EXCEPT !.s.lastPowerupSpawn = 0]
  ELSE g

\* Lines 907-910.
LevelUp(g) ==
  IF g.s.score > g.s.level * LevelStep
  THEN [g EXCEPT !.s.level = g.s.level + 1,
                 !.part = Burst(g.part, 1, ParticleLife)]
  ELSE g

\* Lines 779-780 and 809-810: each of the two player collision passes tests
\* the invulnerability once, before its loop.
PlayerCollisions(g) ==
  LET a == IF Vulnerable(g.s) THEN PlayerVsEnemies(g, 1) ELSE g
  IN IF Vulnerable(a.s) THEN PlayerVsProjectiles(a, 1) ELSE a

\* updateGame (lines 589-914) on a running game: the body of the updater
\* after its guard, in the order of the source.
StepBody(g, dt, in) ==
  LET g1 == [g EXCEPT !.s = DecayTimers(g.s, dt)]
      g2 == MoveProjectiles(g1, dt)
      g3 == UpdateEnemies(g2, 1, in)
      g4 == UpdateParticles(UpdatePowerUps(g3, dt), dt)
      g5 == ProjectilesVsEnemies(g4, 1)
      g6 == PlayerCollisions(g5)
      g7 == PlayerVsPowerUps(g6, 1)
      g8 == SpawnPowerUps(SpawnEnemies(g7, in), in)
  IN LevelUp(g8)

\* Line 591: nothing happens unless the game is running.
updateGame(g, dt, in) ==
  IF ~g.s.gameStarted \/ g.s.gameOver \/ g.s.gameWon THEN g
  ELSE StepBody(g, dt, in)

\* ---------------------------------------------------------------- actions
Age(a, e, cap) == Min(cap, a + e)
Running(s) == s.gameStarted /\ ~s.gameOver /\ ~s.gameWon

\* A render, or the effects after it, is still to come.
Pending ==
  stateRef # RefOf(state) \/ ~refSharesEffects \/ moveTimer # Running(state)

\* The effects of lines 202-204 and 985-1020 after a render: stateRef.current
\* becomes the rendered state, and the movePlayer interval exists exactly
\* while the rendered game is running.
Commit ==
  /\ Pending
  /\ stateRef' = RefOf(state)
  /\ refSharesEffects' = TRUE
  /\ moveTimer' = Running(state)
  /\ last' = NoEvent
  /\ UNCHANGED <<lastTime, run, env>>
  /\ UNCHANGED <<state, projectilePool, enemyPool, particlePool, powerupPool,
                 storage, highScoreRef>>

\* After a keyboard or touch handler: rendered at once unless an earlier
\* render is still pending; `fresh` says that the handler replaced the
\* powerupEffects object.
Settle(fresh) ==
  IF Pending
  THEN /\ UNCHANGED <<stateRef, moveTimer>>
       /\ refSharesEffects' = (refSharesEffects /\ ~fresh)
  ELSE /\ stateRef' = RefOf(state')
       /\ refSharesEffects' = TRUE
       /\ moveTimer' = Running(state')

\* The inputs of one frame that the frame can read: a column and an attack
\* pattern for an active boss, the type and column of a spawn.
Columns == 0..(CanvasW - 1)
HasBoss(pool) == \E i \in 1..Len(pool) : pool[i].active /\ pool[i].type = "boss"
FrameInputs(aged) ==
  LET on == Running(aged)
      spawn == on /\ aged.lastEnemySpawn > SpawnRate(aged.level)
      power == on /\ aged.lastPowerupSpawn > PowerupInterval
  IN [bossX : IF on /\ HasBoss(enemyPool) THEN Columns ELSE {0},
      attackType : IF on /\ HasBoss(enemyPool) THEN 0..2 ELSE {0},
      spawnType : IF spawn THEN run.types ELSE {"normal"},
      spawnX : IF spawn THEN Columns ELSE {0},
      powType : IF power THEN run.powers ELSE {"health"},
      powX : IF power THEN Columns ELSE {0}]

Aged(s, elapsed) ==
  [s EXCEPT !.lastShot = Age(@, elapsed, ShotAge),
            !.lastEnemySpawn = Age(@, elapsed, SpawnAge),
            !.lastPowerupSpawn = Age(@, elapsed, PowerupAge)]

\* render (lines 1042-2070): it reads stateRef.current, the four pools and
\* highScoreRef.current and writes to the canvas context alone.
renderBlinking(g) ==
  [g EXCEPT !.ev.draws = g.ev.draws + 1,
            !.s.player.invulnerable = Dec(g.s.player.invulnerable, 1)]
render(g) == [g EXCEPT !.ev.draws = g.ev.draws + 1]

\* Line 2074: the deltaTime of a frame is the time since the previous one,
\* clamped.
deltaTime(elapsed, clamp) == Min(elapsed, clamp)

\* updateGameLoop (lines 2073-2093): `elapsed` ticks after the previous frame
\* the animation callback clamps the elapsed time and runs one updateGame.
\* The render that a frame schedules, and its effects, run before the next
\* animation callback.
UpdateGameLoop ==
  /\ frames > 0
  /\ ~Pending
  /\ \E elapsed \in 1..Min(MaxElapsed, run.until - lastTime) :
     \E in \in FrameInputs(Aged(state, elapsed)) :
       LET dt == deltaTime(elapsed, MAX_DELTA)
           g0 == [s |-> Aged(state, elapsed), proj |-> projectilePool,
                  en |-> [i \in 1..Len(enemyPool) |->
                            [enemyPool[i] EXCEPT !.lastAttack = Age(@, elapsed, AttackAge)]],
                  part |-> particlePool, pow |-> powerupPool,
                  store |-> storage, hs |-> highScoreRef,
                  ev |-> [NoEvent EXCEPT !.dt = dt]]
           g == render(updateGame(g0, dt, in))
       IN /\ state' = g.s
          /\ stateRef' = [stateRef EXCEPT
               !.lastShot = Age(@, elapsed, ShotAge),
               !.powerupEffects = IF refSharesEffects THEN g.s.powerupEffects ELSE @]
          /\ projectilePool' = g.proj
          /\ enemyPool' = g.en
          /\ particlePool' = g.part
          /\ powerupPool' = g.pow
          /\ storage' = g.store
          /\ highScoreRef' = g.hs
          /\ lastTime' = lastTime + elapsed
          /\ last' = g.ev
  /\ frames' = requestAnimationFrame(frames - 1)
  /\ animationRef' = TRUE
  /\ UNCHANGED <<refSharesEffects, moveTimer, run, isVisible, listening,
                 spaceHeld, mobileControls>>

\* shoot (lines 522-545), its reads all taken from stateRef.current.
CanShoot(ref) ==
  IF ref.powerupEffects.rapid > 0 THEN ~(2 * ref.lastShot < ShotCooldown)
  ELSE ~(ref.lastShot < ShotCooldown)
Volley(ref) ==
  [k \in 1..(IF ref.powerupEffects.multishot > 0 THEN 3 ELSE 1) |->
     [active |-> TRUE, x |-> ref.playerX, y |-> PlayerY, width |-> PROJ_W,
      height |-> PROJ_H, damage |-> 1]]
shoot ==
  IF CanShoot(stateRef)
  THEN /\ projectilePool' = AcquireAll(projectilePool, Volley(stateRef))
       /\ state' = [state EXCEPT !.lastShot = 0]
  ELSE UNCHANGED <<projectilePool, state>>

\* resetGame (lines 548-586).
ClearPools ==
  /\ projectilePool' = [i \in 1..Len(projectilePool) |-> FreeProjectile]
  /\ enemyPool' = [i \in 1..Len(enemyPool) |-> FreeEnemy]
  /\ particlePool' = [i \in 1..Len(particlePool) |-> FreeParticle]
  /\ powerupPool' = [i \in 1..Len(powerupPool) |-> FreePowerUp]
resetGame ==
  /\ ClearPools
  /\ state' = InitialState

\* handleKeyDown with Space (lines 918-935): what it does is decided by
\* stateRef.current.  The handler does not read e.repeat.
handleKeyDownSpace ==
  /\ listening
  /\ IF ~stateRef.gameStarted /\ ~stateRef.gameOver /\ ~stateRef.gameWon
     THEN /\ state' = [state EXCEPT !.gameStarted = TRUE]
          /\ Settle(FALSE)
          /\ UNCHANGED <<projectilePool, enemyPool, particlePool, powerupPool>>
     ELSE IF stateRef.gameOver \/ stateRef.gameWon
     THEN /\ resetGame
          /\ Settle(TRUE)
     ELSE /\ shoot
          /\ Settle(FALSE)
          /\ UNCHANGED <<enemyPool, particlePool, powerupPool>>
  /\ last' = NoEvent
  /\ UNCHANGED <<lastTime, run, isVisible, listening, animationRef,
                 frames, mobileControls>>
  /\ UNCHANGED <<storage, highScoreRef>>

\* Space is pressed and released before anything else happens.
KeySpace ==
  /\ ~spaceHeld
  /\ handleKeyDownSpace
  /\ UNCHANGED spaceHeld

\* Space is pressed and kept down; the keyboard repeats the keydown event
\* for as long as it is down; Space is released (handleKeyUp, lines 944-949,
\* clears keys.Space, which nothing reads).
PressSpace ==
  /\ ~spaceHeld
  /\ handleKeyDownSpace
  /\ spaceHeld' = TRUE
RepeatSpace ==
  /\ spaceHeld
  /\ handleKeyDownSpace
  /\ UNCHANGED spaceHeld
ReleaseSpace ==
  /\ spaceHeld
  /\ spaceHeld' = FALSE
  /\ last' = NoEvent
  /\ UNCHANGED <<state, stateRef, refSharesEffects, projectilePool, enemyPool,
                 particlePool, powerupPool, storage, highScoreRef, moveTimer,
                 lastTime, run, isVisible, listening, animationRef,
                 frames, mobileControls>>

\* handleKeyDown with another key (lines 937-940) and handleKeyUp (944-949).
\* Only the codes movePlayer reads are kept in keys.
KeyDown ==
  /\ listening
  /\ \E code \in MoveKeys :
       /\ code \notin state.keys
       /\ state' = [state EXCEPT !.keys = @ \cup {code}]
  /\ Settle(FALSE)
  /\ last' = NoEvent
  /\ UNCHANGED <<lastTime, run, env>>
  /\ UNCHANGED <<projectilePool, enemyPool, particlePool, powerupPool, storage,
                 highScoreRef>>
KeyUp ==
  /\ listening
  /\ \E code \in MoveKeys :
       /\ code \in state.keys
       /\ state' = [state EXCEPT !.keys = @ \ {code}]
  /\ Settle(FALSE)
  /\ last' = NoEvent
  /\ UNCHANGED <<lastTime, run, env>>
  /\ UNCHANGED <<projectilePool, enemyPool, particlePool, powerupPool, storage,
                 highScoreRef>>

\* handleMobileAction('start' | 'restart') (lines 960-971).  The START button
\* is rendered while the rendered game has not started, RESTART while it is
\* over or won (lines 2187-2205).  The updater calls resetGame, whose
\* setState either is queued ahead of the updater's own result (eager: the
\* updater's result stands) or lands on top of it (render phase: the reset
\* state stands).
MobileStartRestart ==
  /\ isVisible
  /\ ~Running(stateRef)
  /\ IF ~state.gameStarted /\ ~state.gameOver /\ ~state.gameWon
     THEN /\ state' = [state EXCEPT !.gameStarted = TRUE]
          /\ Settle(FALSE)
          /\ UNCHANGED <<projectilePool, enemyPool, particlePool, powerupPool>>
     ELSE IF state.gameOver \/ state.gameWon
     THEN \/ /\ ClearPools
             /\ state' = [state EXCEPT !.gameStarted = TRUE,
                                       !.gameOver = FALSE, !.gameWon = FALSE]
             /\ Settle(FALSE)
          \/ /\ resetGame
             /\ Settle(TRUE)
     ELSE UNCHANGED <<state, stateRef, refSharesEffects, moveTimer,
                      projectilePool, enemyPool, particlePool, powerupPool>>
  /\ last' = NoEvent
  /\ UNCHANGED <<lastTime, run, env>>
  /\ UNCHANGED <<storage, highScoreRef>>

\* handleMobileAction('shoot') (lines 978-980): the FIRE button is rendered
\* while the rendered game is running (line 2209).
MobileShoot ==
  /\ isVisible
  /\ Running(stateRef)
  /\ shoot
  /\ Settle(FALSE)
  /\ last' = NoEvent
  /\ UNCHANGED <<lastTime, run, env>>
  /\ UNCHANGED <<enemyPool, particlePool, powerupPool, storage, highScoreRef>>

\* The direction buttons (lines 2215-2247), rendered while the rendered
\* game is running: touchstart sets the button's flag, touchend clears it.
MobileHold ==
  /\ isVisible
  /\ Running(stateRef)
  /\ \E button \in {"moveLeft", "moveRight"} :
       /\ ~mobileControls[button]
       /\ mobileControls' = [mobileControls EXCEPT ![button] = TRUE]
  /\ last' = NoEvent
  /\ UNCHANGED <<state, stateRef, refSharesEffects, projectilePool, enemyPool,
                 particlePool, powerupPool, storage, highScoreRef, moveTimer,
                 lastTime, run, isVisible, listening, animationRef, frames,
                 spaceHeld>>
MobileLetGo ==
  /\ isVisible
  /\ Running(stateRef)
  /\ \E button \in {"moveLeft", "moveRight"} :
       /\ mobileControls[button]
       /\ mobileControls' = [mobileControls EXCEPT ![button] = FALSE]
  /\ last' = NoEvent
  /\ UNCHANGED <<state, stateRef, refSharesEffects, projectilePool, enemyPool,
                 particlePool, powerupPool, storage, highScoreRef, moveTimer,
                 lastTime, run, isVisible, listening, animationRef, frames,
                 spaceHeld>>

\* The updater of movePlayer (lines 989-1015): a held key and a held button
\* each move the player one position, then the position is clamped.
movePlayer(x, keys, mobile, width) ==
  LET k == (IF "ArrowRight" \in keys THEN 1 ELSE 0)
           - (IF "ArrowLeft" \in keys THEN 1 ELSE 0)
      m == (IF mobile.moveRight THEN 1 ELSE 0)
           - (IF mobile.moveLeft THEN 1 ELSE 0)
  IN Max(0, Min(width - 1, x + k + m))

\* movePlayer (lines 988-1016), the 16 ms interval.
MovePlayer ==
  /\ moveTimer
  /\ state' = [state EXCEPT
       !.player.x = movePlayer(@, state.keys, mobileControls, run.width)]
  /\ last' = NoEvent
  /\ UNCHANGED <<lastTime, run, env>>
  /\ UNCHANGED <<stateRef, refSharesEffects, projectilePool, enemyPool,
                 particlePool, powerupPool, storage, highScoreRef, moveTimer>>

\* checkAndFire (lines 1024-1032), the 80 ms interval.
AutoFire ==
  /\ Running(stateRef)
  /\ stateRef.powerupEffects.rapid > 0
  /\ shoot
  /\ last' = NoEvent
  /\ UNCHANGED <<lastTime, run, env>>
  /\ UNCHANGED <<stateRef, refSharesEffects, enemyPool, particlePool,
                 powerupPool, storage, highScoreRef, moveTimer>>

\* The parent hides the game (isVisible false).  The render runs the pending
\* effects; the cleanup of lines 2140-2148 removes the two listeners and
\* cancels the requested frame, and the effect returns at line 2097.  The
\* intervals of lines 985-1037 do not depend on isVisible.
Hide ==
  /\ isVisible
  /\ isVisible' = FALSE
  /\ listening' = FALSE
  /\ frames' = IF animationRef THEN cancelAnimationFrame(frames) ELSE frames
  /\ animationRef' = FALSE
  /\ stateRef' = RefOf(state)
  /\ refSharesEffects' = TRUE
  /\ moveTimer' = Running(state)
  /\ last' = NoEvent
  /\ UNCHANGED <<state, projectilePool, enemyPool, particlePool, powerupPool,
                 storage, highScoreRef, lastTime, run, spaceHeld,
                 mobileControls>>

\* The parent shows the game again, at once or MaxHidden ticks later
\* (`hidden`): the effect of lines
\* 2096-2139 attaches the listeners, takes the time (line 2137) and requests
\* a frame.  The stamps in the state have grown older by the time hidden.
Show ==
  /\ ~isVisible
  /\ isVisible' = TRUE
  /\ listening' = TRUE
  /\ frames' = requestAnimationFrame(frames)
  /\ animationRef' = TRUE
  /\ \E hidden \in {0, MaxHidden} :
       /\ state' = Aged(state, hidden)
       /\ enemyPool' = [i \in 1..Len(enemyPool) |->
                          [enemyPool[i] EXCEPT
                             !.lastAttack = Age(@, hidden, AttackAge)]]
  /\ stateRef' = RefOf(state')
  /\ refSharesEffects' = TRUE
  /\ moveTimer' = Running(state')
  /\ last' = NoEvent
  /\ UNCHANGED <<projectilePool, particlePool, powerupPool, storage,
                 highScoreRef, lastTime, run, spaceHeld, mobileControls>>

\* One call of render (line 2082) taken on its own, at any moment of a game.
Render ==
  /\ isVisible
  /\ LET g == render([s |-> state, proj |-> projectilePool, en |-> enemyPool,
                      part |-> particlePool, pow |-> powerupPool,
                      store |-> storage, hs |-> highScoreRef, ev |-> NoEvent])
     IN /\ state' = g.s
        /\ projectilePool' = g.proj
        /\ enemyPool' = g.en
        /\ particlePool' = g.part
        /\ powerupPool' = g.pow
        /\ storage' = g.store
        /\ highScoreRef' = g.hs
        /\ last' = g.ev
  /\ UNCHANGED <<stateRef, refSharesEffects, moveTimer, lastTime, run, env>>

Next ==
  \/ UpdateGameLoop
  \/ Commit
  \/ KeySpace
  \/ PressSpace
  \/ RepeatSpace
  \/ ReleaseSpace
  \/ KeyDown
  \/ KeyUp
  \/ MobileStartRestart
  \/ MobileShoot
  \/ MovePlayer
  \/ AutoFire
  \/ Hide
  \/ Show
  \/ MobileHold
  \/ MobileLetGo
  \/ Render

Spec == Init /\ [][Next]_vars

\* A player who fires, starts and restarts but does not steer.
Play ==
  \/ UpdateGameLoop
  \/ Commit
  \/ KeySpace
  \/ MobileStartRestart
  \/ MobileShoot
  \/ AutoFire
SpecPlay == Init /\ [][Play]_vars

\* One run with the rapid-fire power-up, in a view that the parent hides and
\* shows; the game is mounted hidden or shown.
RapidRun == [types |-> {"normal"}, powers |-> {"rapid"}, until |-> MaxTime,
             width |-> CanvasW]
ViewRun == [types |-> {"normal"}, powers |-> {"rapid"}, until |-> ViewTime,
            width |-> CanvasW]
InitView ==
  /\ Mounted(NoEntry)
  /\ run = ViewRun
  /\ Shown \/ Hidden
  /\ spaceHeld = FALSE
  /\ last = NoEvent
View ==
  \/ UpdateGameLoop
  \/ Commit
  \/ KeySpace
  \/ MobileStartRestart
  \/ MobileShoot
  \/ AutoFire
  \/ Hide
  \/ Show
SpecView == InitView /\ [][View]_vars

\* One run played on the keyboard alone, with Space pressed, held and
\* released.
InitHold ==
  /\ Mounted(NoEntry)
  /\ run = RapidRun
  /\ Shown /\ spaceHeld = FALSE
  /\ last = NoEvent
Hold ==
  \/ UpdateGameLoop
  \/ Commit
  \/ PressSpace
  \/ RepeatSpace
  \/ ReleaseSpace
  \/ AutoFire
SpecHold == InitHold /\ [][Hold]_vars

\* updateGameLoop (lines 2073-2093) before the game is started, with the
\* time in units of 1/Fine tick: the callback clamps the elapsed time, makes
\* its one call of updateGame, which returns the state it was given (line
\* 591), and requests the next frame.
IdleFrame ==
  /\ frames > 0
  /\ ~Pending
  /\ Phase(state) = "NotStarted"
  /\ \E elapsed \in 1..Min(MaxGap, DriverTime - lastTime) :
       /\ lastTime' = lastTime + elapsed
       /\ last' = [NoEvent EXCEPT !.dt = deltaTime(elapsed, Fine * MAX_DELTA),
                                  !.draws = 1]
  /\ frames' = requestAnimationFrame(frames - 1)
  /\ animationRef' = TRUE
  /\ UNCHANGED <<state, stateRef, refSharesEffects, projectilePool, enemyPool,
                 particlePool, powerupPool, storage, highScoreRef, moveTimer,
                 run, isVisible, listening, spaceHeld, mobileControls>>

\* The driver on its own, under a game that waits for its start while keys
\* are pressed and released.
InitDriver ==
  /\ Mounted(NoEntry)
  /\ run = RapidRun
  /\ Shown /\ spaceHeld = FALSE
  /\ last = NoEvent
Driver ==
  \/ IdleFrame
  \/ KeyDown
  \/ KeyUp
SpecDriver == InitDriver /\ [][Driver]_vars

\* The long run, with render also called between the handlers.
InitRender ==
  /\ Mounted(NoEntry)
  /\ run = LongRun
  /\ Shown /\ spaceHeld = FALSE
  /\ last = NoEvent
Drawing ==
  \/ UpdateGameLoop
  \/ Commit
  \/ KeySpace
  \/ MobileStartRestart
  \/ MobileShoot
  \/ Render
SpecRender == InitRender /\ [][Drawing]_vars

\* The long run, followed into the boss's third phase, with a projectile pool
\* that has room for a whole spiral attack, as the pool of 50 slots has.
SpiralCap == 6
SpiralTime == 20
SpiralRun == [LongRun EXCEPT !.until = SpiralTime]
InitSpiral ==
  /\ state = InitialState
  /\ stateRef = RefOf(InitialState)
  /\ refSharesEffects = TRUE
  /\ projectilePool = [i \in 1..SpiralCap |-> FreeProjectile]
  /\ enemyPool = createEnemyPool
  /\ particlePool = createParticlePool
  /\ powerupPool = createPowerUpPool
  /\ moveTimer = FALSE
  /\ mobileControls = NoTouch
  /\ lastTime = 0
  /\ storage = NoEntry
  /\ highScoreRef = getHighScore(NoEntry)
  /\ run = SpiralRun
  /\ Shown /\ spaceHeld = FALSE
  /\ last = NoEvent
Spiral ==
  \/ UpdateGameLoop
  \/ Commit
  \/ KeySpace
SpecSpiral == InitSpiral /\ [][Spiral]_vars

\* Steering on its own, by keys and by the on-screen buttons, between two
\* frames of a game on a field of FieldW positions.
TouchRun == [types |-> {"normal"}, powers |-> {"health"}, until |-> MaxTime,
             width |-> FieldW]
InitTouch ==
  /\ Mounted(NoEntry)
  /\ run = TouchRun
  /\ Shown /\ spaceHeld = FALSE
  /\ last = NoEvent
Touch ==
  \/ KeySpace
  \/ Commit
  \/ KeyDown
  \/ KeyUp
  \/ MobileHold
  \/ MobileLetGo
  \/ MovePlayer
SpecTouch == InitTouch /\ [][Touch]_vars

\* ------------------------------------------- the high score functions alone
\* Every content of the storage: no item, the empty string, a number, a number
\* followed by other characters, other characters only; each with a storage
\* that works and one that throws.
Stores ==
  {st \in [present : BOOLEAN, digits : BOOLEAN, value : 0..MaxSaved,
           junk : BOOLEAN, throws : BOOLEAN] :
     /\ (~st.present => ~st.digits /\ ~st.junk)
     /\ (~st.digits => st.value = 0)}

\* The component as constructed, before the effect of lines 197-199 has run:
\* highScoreRef is useRef(0).
InitStorage ==
  /\ Constructed
  /\ storage \in Stores
  /\ highScoreRef = 0
  /\ run = LongRun
  /\ Shown /\ spaceHeld = FALSE
  /\ last = NoEvent

\* highScoreRef.current = getHighScore() (line 198); an exception leaves the
\* ref as it is.
LoadHighScore ==
  /\ highScoreRef' = IF getHighScore(storage) = Thrown THEN highScoreRef
                     ELSE getHighScore(storage)
  /\ UNCHANGED <<state, stateRef, refSharesEffects, projectilePool, enemyPool,
                 particlePool, powerupPool, storage, moveTimer, lastTime, run,
                 env, last>>

\* saveHighScore(score) with any score.
SaveHighScore ==
  /\ \E score \in 0..MaxSaved : storage' = saveHighScore(storage, score)
  /\ UNCHANGED <<state, stateRef, refSharesEffects, projectilePool, enemyPool,
                 particlePool, powerupPool, highScoreRef, moveTimer, lastTime,
                 run, env, last>>

Persist ==
  \/ LoadHighScore
  \/ SaveHighScore
SpecStorage == InitStorage /\ [][Persist]_vars

\* ------------------------------------------------------------- properties
\* The gameplay state that the terminal guard of updateGame protects.
ActiveFlags(pool) == [i \in 1..Len(pool) |-> pool[i].active]
Gameplay ==
  <<state.score, state.level, state.player.lives, state.player.x, state.combo,
    state.powerupEffects, ActiveFlags(projectilePool), ActiveFlags(enemyPool),
    ActiveFlags(particlePool), ActiveFlags(powerupPool)>>
OnPlayer(e) == e.active /\ e.x = state.player.x /\ e.y = PlayerY

\* C1: every pool keeps the number of slots it was created with, and the
\* number of its active slots is never above that capacity.
PoolsBounded ==
  /\ Len(projectilePool) = ProjectileCap
  /\ Len(enemyPool) = EnemyCap
  /\ Len(particlePool) = ParticleCap
  /\ Len(powerupPool) = PowerUpCap
  /\ ActiveCount(projectilePool) <= ProjectileCap
  /\ ActiveCount(enemyPool) <= EnemyCap
  /\ ActiveCount(particlePool) <= ParticleCap
  /\ ActiveCount(powerupPool) <= PowerUpCap
\* A kill has asked for more particles than the pool has slots, with the
\* enemy pool full as well.
PoolsSaturated ==
  /\ last.kills > 0
  /\ ActiveCount(particlePool) = ParticleCap
  /\ ActiveCount(enemyPool) = EnemyCap

\* A simulation step: the animation callback, which alone moves lastTime.
Step == lastTime' # lastTime

\* C2: a simulation step whose decrement leaves the invulnerability countdown
\* running takes no life.
NoLossWhileInvulnerable ==
  [][Step /\ state.player.invulnerable - last'.dt > 0
       => last'.hits = 0 /\ state'.player.lives >= state.player.lives]_vars
\* An enemy body is on the player during the window, after a step that took
\* no life.
OverlapWhileInvulnerable ==
  /\ last.dt > 0
  /\ last.hits = 0
  /\ state.player.invulnerable > 0
  /\ state.player.lives < START_LIVES
  /\ \E i \in 1..Len(enemyPool) : OnPlayer(enemyPool[i])

\* C3: one step takes at most one life.
OneLifePerStep ==
  [][Step => state'.player.lives >= state.player.lives - 1]_vars

\* C4: lives are never negative, and a step sets gameOver at most once.
LivesNeverNegative ==
  state.player.lives >= 0 /\ last.overs <= 1

\* C5: gameOver and gameWon are never both true.
OverXorWon ==
  ~(state.gameOver /\ state.gameWon)

\* C6: outside Running, a step that is not a start or a reset (it leaves the
\* phase as it is) changes nothing of the gameplay state.
FrozenOutsideRunning ==
  [][~Running(state) /\ Phase(state') = Phase(state) => Gameplay' = Gameplay]_vars

\* C7: the phase moves only NotStarted -> Running -> {GameOver, Won} ->
\* NotStarted.
PhaseOrder ==
  [][\/ Phase(state') = Phase(state)
     \/ Phase(state) = "NotStarted" /\ Phase(state') = "Running"
     \/ Phase(state) = "Running" /\ Phase(state') \in {"GameOver", "Won"}
     \/ Phase(state) \in {"GameOver", "Won"} /\ Phase(state') = "NotStarted"]_vars

\* C8: the score never decreases, except that a reset starts the next
\* session from the initial state.
ScoreMonotone ==
  [][state'.score >= state.score \/ state' = InitialState]_vars
\* A step has scored a kill.
KillScored ==
  last.kills > 0 /\ state.score > 0

\* C9: the multiplier kept in the state is the function of the combo counter
\* that scoring applies: 1 up to ComboStep, then Multiplier(combo).
MultiplierOfCombo ==
  state.multiplier = IF state.combo > ComboStep THEN Multiplier(state.combo) ELSE 1

\* C10: the stored high score never decreases.
HighScoreMonotone ==
  [][getHighScore(storage') >= getHighScore(storage)]_vars
\* A step has written a new high score over an older entry.
HighScoreWritten ==
  last.writes > 0 /\ storage.value > StoredScore

\* The stored integer: the number of an item that is a decimal integer.
StoredInteger(store) ==
  IF ~store.throws /\ store.present /\ store.digits /\ ~store.junk
  THEN store.value ELSE 0

\* C11: saving a score that is not above the stored integer leaves the stored
\* value as it is.
SaveOnlyHigher ==
  [][\A score \in 0..MaxSaved :
       storage' = saveHighScore(storage, score) /\ score <= StoredInteger(storage)
         => getHighScore(storage') = getHighScore(storage)]_vars

\* C12: getHighScore returns the stored integer, and zero when there is none,
\* when the item is not a decimal integer and when the storage throws.
LoadsIntegerOrZero ==
  getHighScore(storage) = StoredInteger(storage)

\* C13: a simulation step that ends the game with a score above the stored
\* high score leaves that score in storage.
GameOverPersists ==
  [][Step /\ ~state.gameOver /\ state'.gameOver
          /\ state'.score > getHighScore(storage)
       => getHighScore(storage') = state'.score]_vars

\* An enemy that the spawning of lines 883-898 has just put into the pool: a
\* regular enemy is still above the playfield, a boss has not yet attacked.
FreshEnemy(e) == e.active /\ e.type # "boss" /\ e.y = -1
FreshBoss(e) == e.active /\ e.type = "boss" /\ e.lastAttack = AttackAge
Bosses(pool) == {i \in 1..Len(pool) : pool[i].active /\ pool[i].type = "boss"}

\* C14: at most one boss is active in every reachable state, and a simulation
\* step spawns a boss only at level BOSS_SPAWN_LEVEL or above and into an
\* enemy pool with no other active enemy; below that level no step spawns one.
OneBoss ==
  /\ [](Cardinality(Bosses(enemyPool)) <= 1)
  /\ [][Step /\ (\E i \in 1..Len(enemyPool) : FreshBoss(enemyPool'[i]))
          => state.level >= BossLevel /\ ActiveCount(enemyPool') = 1]_vars
\* A step has just spawned the boss.
BossSpawned ==
  /\ state.bossActive /\ state.level >= BossLevel
  /\ \E i \in 1..Len(enemyPool) : FreshBoss(enemyPool[i])

\* C15: from level BOSS_SPAWN_LEVEL on, and until the boss has been defeated
\* (a defeat alone brings the score to POINTS_BOSS), no simulation step
\* spawns a regular enemy, whether earlier enemies or the boss are active.
NoRegularSpawnAtBossLevel ==
  [][Step /\ state.level >= BossLevel /\ state.score < POINTS_BOSS
       => \A i \in 1..Len(enemyPool) : ~FreshEnemy(enemyPool'[i])]_vars

\* The handlers that call resetGame on a game that is over or won: Space
\* (lines 925-927) and the RESTART button (lines 960-963).
ResetInvoked ==
  /\ state.gameOver \/ state.gameWon
  /\ \/ KeySpace /\ (stateRef.gameOver \/ stateRef.gameWon)
     \/ MobileStartRestart
AllInactive(pool) == ActiveCount(pool) = 0

\* C16: a reset of a game that is over or won leaves the state of a freshly
\* constructed game, every pool slot inactive, and the high score as it was.
ResetIsFresh ==
  [][ResetInvoked
       => /\ state' = InitialState
          /\ AllInactive(projectilePool') /\ AllInactive(enemyPool')
          /\ AllInactive(particlePool') /\ AllInactive(powerupPool')
          /\ storage' = storage /\ highScoreRef' = highScoreRef]_vars

\* C17: while isVisible is false no frame is requested, no key listener is
\* attached and the movePlayer interval is not installed, and no step taken
\* while the game stays hidden changes the game state or a pool.
TeardownComplete ==
  /\ [](~isVisible => ~animationRef /\ ~listening /\ ~moveTimer)
  /\ [][~isVisible /\ ~isVisible'
          => UNCHANGED <<state, projectilePool, enemyPool, particlePool,
                         powerupPool>>]_vars

\* C18: while Space stays down no step starts a game and no step resets one:
\* only the press itself, never a repeated keydown, starts or restarts.
StartOnEdgeOnly ==
  [][spaceHeld /\ spaceHeld'
       => /\ ~(Phase(state) = "NotStarted" /\ Phase(state') = "Running")
          /\ ~(Phase(state) \in {"GameOver", "Won"}
                /\ Phase(state') = "NotStarted")]_vars

\* The GameState that Space leaves from s, read by the handler as rendered,
\* when s is not a running game (lines 925-931).
AfterSpace(s) ==
  IF Phase(s) = "NotStarted" THEN [s EXCEPT !.gameStarted = TRUE]
  ELSE IF Phase(s) \in {"GameOver", "Won"} THEN InitialState
  ELSE s
\* The keys that are down when every held button counts as its arrow key.
HeldAsKeys ==
  state.keys \cup (IF mobileControls.moveLeft THEN {"ArrowLeft"} ELSE {})
             \cup (IF mobileControls.moveRight THEN {"ArrowRight"} ELSE {})

\* C19: START and RESTART leave the GameState that Space leaves from the same
\* rendered state, and a movePlayer step moves the player as the keyboard
\* alone would with every held button counted as its arrow key.
TouchAsKeys ==
  [][/\ MobileStartRestart /\ stateRef = RefOf(state)
          => state' = AfterSpace(state)
     /\ MovePlayer
          => state'.player.x =
               movePlayer(state.player.x, HeldAsKeys, NoTouch, run.width)]_vars
\* The second part of C19 alone.
TouchMovesAsKeys ==
  [][MovePlayer
       => state'.player.x =
            movePlayer(state.player.x, HeldAsKeys, NoTouch, run.width)]_vars

\* C20: a simulation step during which the shield effect is active (its
\* countdown, decremented by the step, is still above zero) takes no life.
NoLossWhileShielded ==
  [][Step /\ Dec(state.powerupEffects.shield, last'.dt) > 0
       => state'.player.lives >= state.player.lives]_vars

\* A step has activated a player projectile: a volley of shoot.
VolleyFired ==
  \E i \in 1..Len(projectilePool) :
    /\ ~projectilePool[i].active
    /\ projectilePool'[i].active
    /\ ~IsEnemyProjectile(projectilePool'[i])

\* C21: a volley is fired only when the time since the last shot, as the
\* state has it, is at least half the cooldown, and at least the whole
\* cooldown when rapid fire is active neither in the state nor in stateRef.
FireRateLimited ==
  [][VolleyFired
       => /\ 2 * state.lastShot >= ShotCooldown
          /\ (state.powerupEffects.rapid <= 0
                /\ stateRef.powerupEffects.rapid <= 0
                  => state.lastShot >= ShotCooldown)]_vars

\* C22: every simulation step is handed the same deltaTime: two animation
\* callbacks in a row advance the game by the same time, whatever their
\* spacing.
FixedTick ==
  [][Step /\ last.dt # 0 => last'.dt = last.dt]_vars

FireFindsNoSlot ==
  /\ ~Step
  /\ Running(state) /\ Running(stateRef)
  /\ ActiveCount(projectilePool) = ProjectileCap
\* A simulation step restarts the enemy spawn interval and leaves no enemy
\* that it has just spawned: its spawn request found no slot.
SpawnFindsNoSlot ==
  /\ Step
  /\ state'.lastEnemySpawn < state.lastEnemySpawn
  /\ \A i \in 1..Len(enemyPool) :
       ~FreshEnemy(enemyPool'[i]) /\ ~FreshBoss(enemyPool'[i])
\* C24: a fire request that finds no inactive projectile slot changes no pool
\* and no field of the GameState, lastShot included, and no simulation step
\* makes a spawn request that finds no inactive enemy slot and restarts the
\* spawn interval all the same.
FullPoolIsNoOp ==
  /\ [][FireFindsNoSlot
          => UNCHANGED <<state, projectilePool, enemyPool, particlePool,
                         powerupPool>>]_vars
  /\ [][~SpawnFindsNoSlot]_vars
\* The second part of C24 alone.
FullPoolSpawnIsNoOp == [][~SpawnFindsNoSlot]_vars

\* A projectile beyond one of the four edges of the playfield by more than
\* the margin of lines 650 and 655.
PastAnEdge(p) ==
  p.y < -1 \/ p.y > CanvasH + 1 \/ p.x < -1 \/ p.x > CanvasW + 1
Removed(j) ==
  /\ enemyPool[j].active
  /\ \/ ~enemyPool'[j].active
     \/ FreshEnemy(enemyPool'[j])
     \/ FreshBoss(enemyPool'[j])
\* C26: a simulation step that kills one enemy, with a projectile of the
\* player's, removes that enemy and a projectile, leaves combo one above the value that the step's timer decay
\* left, with the combo timer at its full window, and adds to the score the
\* points of the enemy's type times the multiplier of that combo: 1 up to
\* ComboStep, then min(MAX_MULTIPLIER, combo div ComboStep + 1).
KillScoresCombo ==
  [][Step /\ last'.kills = 1 /\ last'.own = 1
       => LET combo == DecayTimers(state, last'.dt).combo + 1
              factor == IF combo > ComboStep
                        THEN Min(MAX_MULTIPLIER, (combo \div ComboStep) + 1)
                        ELSE 1
          IN /\ state'.combo = combo
             /\ state'.comboTimer = ComboTime
             /\ \E j \in 1..Len(enemyPool) :
                  /\ Removed(j)
                  /\ state'.score = state.score + Points(enemyPool[j].type) * factor
             /\ \E i \in 1..Len(projectilePool) :
                  projectilePool[i].active /\ ~projectilePool'[i].active]_vars
\* A step has killed an enemy with the player's projectile, as the third
\* kill or a later one of a combo.
ComboKillScored ==
  /\ last.kills = 1 /\ last.own = 1
  /\ state.combo > ComboStep
  /\ state.comboTimer = ComboTime

\* C27: no simulation step has a projectile of the boss's take health from
\* an enemy, the boss included, and so none wins the game by one.
OnlyPlayerShotsDamage ==
  last.foul = 0 /\ last.kills = last.own

\* C28: no simulation step has a projectile take health from an enemy, or
\* score a kill on it, after a hit on another enemy has deactivated the
\* projectile.
OneEnemyPerProjectile ==
  last.extra = 0

\* C29: at most one request for the animation callback is pending in every
\* reachable state; the callback leaves as many pending as it found, its own
\* request being replaced by the one it makes, and hiding the game leaves
\* none.
OneFramePending ==
  /\ [](frames <= 1)
  /\ [][Step => frames' = frames]_vars
  /\ [][isVisible /\ ~isVisible' => frames' = 0]_vars
\* A running game whose callback has run has been hidden, and the cleanup
\* has cancelled the request that the last callback made.
HiddenNonePending ==
  /\ ~isVisible /\ frames = 0
  /\ lastTime > 0
  /\ Running(state)

\* C30: in every terminal state, Won as well as GameOver, the stored high
\* score is at least the final score: a game won with a score above the
\* stored high score has that score stored.
TerminalScoreStored ==
  state.gameOver \/ state.gameWon => getHighScore(storage) >= state.score
\* The first part of C30 alone: the game that is won.
WonScoreStored ==
  state.gameWon /\ ~state.gameOver => getHighScore(storage) >= state.score
====
